---- MODULE Spec2Model ----
(***************************************************************************)
(* Batch analysis service (services/batch-analysis/src/main.py):           *)
(* the suspicious-pattern detection, risk aggregation and recommendation   *)
(* logic of BatchAnalysisService.analyze_suspicious_patterns, run against  *)
(* a transactions table.                                                   *)
(*                                                                         *)
(* Amounts are kept in cents (integers), timestamps in whole seconds.      *)
(* Python floats (risk scores, the 10% test, the percentage, the mean) are *)
(* IEEE-754 binary64 values; they are kept exactly, as binary fixed-point  *)
(* numbers in limbs, and every float operation rounds to 53 significant    *)
(* bits, ties to even, as the hardware does.                               *)
(***************************************************************************)
EXTENDS Integers, Sequences, FiniteSets, Bags, TLC

(***************************************************************************)
(* IEEE-754 binary64 arithmetic on non-negative values.                    *)
(* A value is a tuple of NLimbs limbs, least significant first, each in    *)
(* 0..LimbBase-1; the unit is 2^-FracBits.                                 *)
(***************************************************************************)
LimbBits == 8 + 8
LimbBase == 2 ^ LimbBits
FracLimbs == 2 + 2
NLimbs == FracLimbs + 2
FracBits == FracLimbs * LimbBits
MantBits == 52 + 1

Pow2(k) == 2 ^ k

FZero == [i \in 1..NLimbs |-> 0]

FromInt(n) ==
    [i \in 1..NLimbs |->
        IF i = FracLimbs + 1 THEN n % LimbBase
        ELSE IF i = FracLimbs + 2 THEN n \div LimbBase
        ELSE 0]

\* carry propagation from limb i upward
RECURSIVE Propagate(_, _, _)
Propagate(x, i, c) ==
    IF i > NLimbs THEN <<>>
    ELSE LET v == x[i] + c
         IN  <<v % LimbBase>> \o Propagate(x, i + 1, v \div LimbBase)

\* exact sum and exact product by a small natural
AddExact(x, y) == Propagate([i \in 1..NLimbs |-> x[i] + y[i]], 1, 0)
MulExact(x, m) == Propagate([i \in 1..NLimbs |-> x[i] * m], 1, 0)

\* long division by a small natural n: remainder carried into limb i from above
RECURSIVE RemAbove(_, _, _)
RemAbove(x, i, n) ==
    IF i > NLimbs THEN 0 ELSE (RemAbove(x, i + 1, n) * LimbBase + x[i]) % n

DivQuot(x, n) ==
    [i \in 1..NLimbs |-> (RemAbove(x, i + 1, n) * LimbBase + x[i]) \div n]
DivRem(x, n) == RemAbove(x, 1, n)

\* bit k of x (bit 0 is the least significant bit of limb 1)
BitAt(x, k) == (x[(k \div LimbBits) + 1] \div Pow2(k % LimbBits)) % 2

\* index of the most significant set bit of a non-zero x
TopBit(x) ==
    LET top == CHOOSE i \in 1..NLimbs :
                  x[i] # 0 /\ \A j \in (i + 1)..NLimbs : x[j] = 0
        b   == CHOOSE k \in 0..(LimbBits - 1) :
                  x[top] \div Pow2(k) = 1
    IN  (top - 1) * LimbBits + b

\* every bit of x below bit k is zero
LowZero(x, k) ==
    /\ \A i \in 1..(k \div LimbBits) : x[i] = 0
    /\ x[(k \div LimbBits) + 1] % Pow2(k % LimbBits) = 0

ClearBelow(x, k) ==
    [i \in 1..NLimbs |->
        IF i < (k \div LimbBits) + 1 THEN 0
        ELSE IF i = (k \div LimbBits) + 1 THEN x[i] - (x[i] % Pow2(k % LimbBits))
        ELSE x[i]]

BitValue(k) ==
    [i \in 1..NLimbs |-> IF i = (k \div LimbBits) + 1 THEN Pow2(k % LimbBits) ELSE 0]

\* round x (plus a non-zero tail below the unit when sticky) to a multiple of
\* 2^p, to nearest, ties to even
RoundAtBit(x, p, sticky) ==
    IF p <= 0 THEN x
    ELSE LET guard == BitAt(x, p - 1) = 1
             rest  == sticky \/ ~LowZero(x, p - 1)
             odd   == BitAt(x, p) = 1
             base  == ClearBelow(x, p)
         IN  IF guard /\ (rest \/ odd) THEN AddExact(base, BitValue(p)) ELSE base

\* round to the nearest binary64 value
RoundToDouble(x, sticky) ==
    IF x = FZero THEN FZero
    ELSE RoundAtBit(x, TopBit(x) - (MantBits - 1), sticky)

\* float + float, float * int, float / int (the int converts exactly)
FAdd(x, y) == RoundToDouble(AddExact(x, y), FALSE)
FMulInt(x, m) == RoundToDouble(MulExact(x, m), FALSE)
FDivInt(x, n) == RoundToDouble(DivQuot(x, n), DivRem(x, n) # 0)

\* the float a decimal literal num/den (3 / 10 for 0.3) parses to
Lit(num, den) == FDivInt(FromInt(num), den)

\* the float literals of the source
F0_1 == Lit(1, 10)
F0_2 == Lit(2, 10)
F0_5 == Lit(5, 10)
F0_6 == Lit(6, 10)
F0_7 == Lit(7, 10)
F0_8 == Lit(8, 10)
F0_9 == Lit(9, 10)

\* exact comparison x < y
RECURSIVE LessFrom(_, _, _)
LessFrom(x, y, i) ==
    IF i = 0 THEN FALSE
    ELSE IF x[i] # y[i] THEN x[i] < y[i]
    ELSE LessFrom(x, y, i - 1)

FLess(x, y) == LessFrom(x, y, NLimbs)

\* nearest integer, ties to even (C rint), as an integer
Rint(x) ==
    LET r == RoundAtBit(x, FracBits, FALSE)
    IN  r[FracLimbs + 1] + LimbBase * r[FracLimbs + 2]


\* Python round(x, 2) on a float: the decimal nearest the exact value, ties to
\* even, parsed back to a float
PyRound2(x) == FDivInt(FromInt(Rint(MulExact(x, 100))), 100)

\* numpy round(x, 3) on a float64: rint(x * 1000) / 1000
NpRound3(x) == FDivInt(FromInt(Rint(FMulInt(x, 1000))), 1000)

(***************************************************************************)
(* The transactions table and the requests.                                *)
(***************************************************************************)
\* how many rows the ingest side stores in one run of the model
MaxRows == 6

\* a stored transaction row (amount in cents, timestamp in seconds)
Txn(s, r, a, t) == [sender_id |-> s, receiver_id |-> r, amount |-> a, timestamp |-> t]

\* the rows the ingest side may store (any number of copies of each)
Population ==
    { Txn(1, 3, 100000, 0),      \* 1000.00
      Txn(1, 3, 900000, 100),    \* 9000.00
      Txn(1, 2, 50000, 200),     \*  500.00
      Txn(1, 3, 999999, 300),    \* 9999.99
      Txn(1, 3, 1000000, 400),   \* 10000.00
      Txn(1, 3, 899999, 699),    \* 8999.99
      Txn(2, 1, 50000, 250) }    \*  500.00

\* threshold_amount = None
NoAmount == 0 - 1

\* confidence_threshold in hundredths; 0.8 when the request leaves it out
DefaultConfidence == 80

\* a BatchAnalysisRequest; entity_types is left out of every request (None)
Request(sd, ed, th, conf) ==
    [start_date |-> sd, end_date |-> ed, analysis_type |-> "suspicious_patterns",
     entity_types |-> "None", threshold_amount |-> th,
     confidence_threshold |-> conf]

\* the requests sent: the whole period, a part of it, an amount threshold, an
\* end_date before the start_date, and another confidence_threshold
Requests ==
    { Request(0, 699, NoAmount, DefaultConfidence),
      Request(100, 300, NoAmount, DefaultConfidence),
      Request(0, 699, 900000, DefaultConfidence),
      Request(300, 100, NoAmount, DefaultConfidence),
      Request(0, 699, NoAmount, 100) }

\* store:     the transactions table, a bag of rows
\* entities:  the ids of the rows of the entities table
\* inserted:  the rows stored so far
\* clock:     the wall clock, in ticks
\* tie_order: how this build's quicksort leaves rows of equal sort key
\* pc, request, fault, df, result, trace: the request being served, what goes
\*            wrong while it is, the frame fetched, the response, the blocks run
\* peer:      the same for a second request served by the same process
\* sessions:  the database sessions open
VARIABLES store, entities, inserted, clock, tie_order,
          pc, request, fault, df, result, trace, peer, sessions

vars == <<store, entities, inserted, clock, tie_order,
          pc, request, fault, df, result, trace, peer, sessions>>


(***************************************************************************)
(* The query of lines 76-91.                                               *)
(***************************************************************************)
\* WHERE t.timestamp BETWEEN :start_date AND :end_date
\*   AND (:threshold_amount IS NULL OR t.amount >= :threshold_amount)
Matches(row, req) ==
    /\ req.start_date <= row.timestamp
    /\ row.timestamp <= req.end_date
    /\ (req.threshold_amount = NoAmount \/ row.amount >= req.threshold_amount)

\* n copies of row
Copies(row, n) == [i \in 1..n |-> row]

\* the rows of a bag, one after the other, in one fixed order
RECURSIVE ScanRows(_, _)
ScanRows(bag, rows) ==
    IF rows = {} THEN <<>>
    ELSE LET row == CHOOSE r \in rows : TRUE
         IN  Copies(row, bag[row]) \o ScanRows(bag, rows \ {row})

Reverse(s) == [i \in 1..Len(s) |-> s[Len(s) + 1 - i]]

\* the query has no ORDER BY: the rows come in an order the database chooses
FetchOrders == {"scan", "backward"}

\* JOIN entities e1 ON t.sender_id = e1.id JOIN entities e2 ON t.receiver_id = e2.id
Joined(row) == row.sender_id \in entities /\ row.receiver_id \in entities

\* result.fetchall()
Fetchall(bag, req, order) ==
    LET hit  == {row \in BagToSet(bag) : Joined(row) /\ Matches(row, req)}
        rows == ScanRows(bag, hit)
    IN  IF order = "scan" THEN rows ELSE Reverse(rows)

(***************************************************************************)
(* Pattern detection, lines 109-153.                                       *)
(***************************************************************************)
\* sort_values is called without kind: quicksort, which is not a stable sort;
\* where it leaves rows of equal timestamp depends on the numpy build
TieOrders == {"input", "reversed"}

\* the rows of the frame with timestamp t, as the sort leaves them
RowsAt(frame, t) ==
    LET At(row) == row.timestamp = t
        ties    == SelectSeq(frame, At)
    IN  IF tie_order = "input" THEN ties ELSE Reverse(ties)

\* the rows with the timestamps of times, earliest timestamp first
RECURSIVE SortFrom(_, _)
SortFrom(frame, times) ==
    IF times = {} THEN <<>>
    ELSE LET t == CHOOSE u \in times : \A v \in times : u <= v
         IN  RowsAt(frame, t) \o SortFrom(frame, times \ {t})

\* df.sort_values('timestamp'): ascending
SortValues(frame) ==
    SortFrom(frame, {frame[i].timestamp : i \in 1..Len(frame)})

\* the index of the first row of the frame sent by entity
FirstRow(frame, entity) ==
    CHOOSE i \in 1..Len(frame) :
        /\ frame[i].sender_id = entity
        /\ \A j \in 1..(i - 1) : frame[j].sender_id # entity

\* df['sender_id'].unique(): the distinct senders in order of first appearance
Unique(frame) ==
    LET senders == {frame[i].sender_id : i \in 1..Len(frame)}
        first   == [s \in senders |-> FirstRow(frame, s)]
    IN  [k \in 1..Cardinality(senders) |->
            CHOOSE s \in senders :
                Cardinality({u \in senders : first[u] <= first[s]}) = k]

\* a faulty variant: the rows of every sender, not only those of entity
EntityTxnsUnfiltered(frame, entity) == frame

\* df[df['sender_id'] == entity]
EntityTxns(frame, entity) ==
    LET Mine(row) == row.sender_id = entity
    IN  SelectSeq(frame, Mine)

RapidWindow == 300

\* a faulty variant: a gap of exactly 300 s counted as rapid
RapidTransactionsInclusive(entity_txns) ==
    Cardinality({i \in 2..Len(entity_txns) :
        entity_txns[i].timestamp - entity_txns[i - 1].timestamp <= RapidWindow})

\* (entity_txns['timestamp'].diff().dt.total_seconds() < 300).sum()
\* the first row has no predecessor: its diff is NaN and NaN < 300 is False
RapidTransactions(entity_txns) ==
    Cardinality({i \in 2..Len(entity_txns) :
        entity_txns[i].timestamp - entity_txns[i - 1].timestamp < RapidWindow})

MinEntityTxns == 5
MinRapid == 3

\* a faulty variant: the score without its cap
RapidRiskUncapped(rapid_transactions) == FMulInt(F0_2, rapid_transactions)

\* a faulty variant: max where the source has min
RapidRiskFloored(rapid_transactions) ==
    LET x == FMulInt(F0_2, rapid_transactions)
    IN  IF FLess(x, F0_9) THEN F0_9 ELSE x

\* min(0.9, rapid_transactions * 0.2)
RapidRisk(rapid_transactions) ==
    LET x == FMulInt(F0_2, rapid_transactions)
    IN  IF FLess(x, F0_9) THEN x ELSE F0_9

\* str(entity)
Str(entity) == ToString(entity)

RapidFinding(entity, rapid_transactions) ==
    [type |-> "rapid_succession",
     entity_id |-> Str(entity),
     count |-> rapid_transactions,
     risk_score |-> RapidRisk(rapid_transactions),
     description |-> <<"Entity made ", ToString(rapid_transactions),
                       " transactions within 5-minute windows">>]

\* the loop of lines 116-129 over senders[i..]
RECURSIVE RapidSuccession(_, _, _)
RapidSuccession(frame, senders, i) ==
    IF i > Len(senders) THEN <<>>
    ELSE LET entity_txns == EntityTxns(frame, senders[i])
             rapid       == RapidTransactions(entity_txns)
             rest        == RapidSuccession(frame, senders, i + 1)
         IN  IF Len(entity_txns) >= MinEntityTxns /\ rapid >= MinRapid
             THEN <<RapidFinding(senders[i], rapid)>> \o rest
             ELSE rest


\* amounts are stored in cents
Cents == 10 * 10

RoundUnit == 1000

\* df[df['amount'] % 1000 == 0]
RoundAmounts(frame) ==
    LET IsRound(row) == row.amount % (RoundUnit * Cents) = 0
    IN  SelectSeq(frame, IsRound)

\* a faulty variant: at least 10% instead of more than 10%
RoundBiasFiresAtTenPercent(n_round, n_rows) ==
    ~FLess(FromInt(n_round), FMulInt(F0_1, n_rows))

\* len(round_amounts) > len(df) * 0.1
RoundBiasFires(n_round, n_rows) ==
    FLess(FMulInt(F0_1, n_rows), FromInt(n_round))

\* a faulty variant: the share as a fraction, not multiplied by 100
PercentageAsFraction(n_round, n_rows) ==
    PyRound2(FDivInt(FromInt(n_round), n_rows))

\* round(len(round_amounts) / len(df) * 100, 2)
Percentage(n_round, n_rows) ==
    PyRound2(FMulInt(FDivInt(FromInt(n_round), n_rows), 100))

\* a faulty variant: round-number bias scored 0.5
RoundNumberBiasScoredHalf(frame) ==
    LET round_amounts == RoundAmounts(frame)
    IN  IF RoundBiasFires(Len(round_amounts), Len(frame))
        THEN << [type |-> "round_number_bias",
                 count |-> Len(round_amounts),
                 percentage |-> Percentage(Len(round_amounts), Len(frame)),
                 risk_score |-> F0_5,
                 description |-> <<ToString(Len(round_amounts)),
                                   " transactions with round amounts detected">>] >>
        ELSE <<>>

\* lines 132-140
RoundNumberBias(frame) ==
    LET round_amounts == RoundAmounts(frame)
    IN  IF RoundBiasFires(Len(round_amounts), Len(frame))
        THEN << [type |-> "round_number_bias",
                 count |-> Len(round_amounts),
                 percentage |-> Percentage(Len(round_amounts), Len(frame)),
                 risk_score |-> F0_6,
                 description |-> <<ToString(Len(round_amounts)),
                                   " transactions with round amounts detected">>] >>
        ELSE <<>>

structuring_threshold == 10000

\* an amount in cents against a float or an int of currency units, exactly
AmountAtLeast(amount, x) == ~FLess(FromInt(amount), MulExact(x, Cents))
\* a faulty variant: the threshold itself still counts as below it
AmountBelowInclusive(amount, n) == amount <= n * Cents

AmountBelow(amount, n) == amount < n * Cents

\* df[(df['amount'] >= structuring_threshold * 0.9) & (df['amount'] < structuring_threshold)]
NearThreshold(frame) ==
    LET Near(row) ==
            /\ AmountAtLeast(row.amount, FMulInt(F0_9, structuring_threshold))
            /\ AmountBelow(row.amount, structuring_threshold)
    IN  SelectSeq(frame, Near)

\* lines 143-153
PotentialStructuring(frame) ==
    LET near_threshold == NearThreshold(frame)
    IN  IF Len(near_threshold) > 0
        THEN << [type |-> "potential_structuring",
                 count |-> Len(near_threshold),
                 risk_score |-> F0_8,
                 description |-> <<ToString(Len(near_threshold)),
                                   " transactions just below $",
                                   ToString(structuring_threshold), " threshold">>] >>
        ELSE <<>>

\* a faulty variant: structuring looked for only when round-number bias did
\* not fire
PatternsExclusive(frame) ==
    LET sorted == SortValues(frame)
        bias   == RoundNumberBias(sorted)
    IN  RapidSuccession(sorted, Unique(sorted), 1)
          \o (IF bias # <<>> THEN bias ELSE PotentialStructuring(sorted))

\* a faulty variant: the findings in an order that goes by the wall clock
PatternsClockOrdered(frame) ==
    LET sorted == SortValues(frame)
        found  == RapidSuccession(sorted, Unique(sorted), 1)
                    \o RoundNumberBias(sorted)
                    \o PotentialStructuring(sorted)
    IN  IF clock % 2 = 0 THEN found ELSE Reverse(found)

\* lines 110-153: the three rules in turn, on the frame sorted by timestamp
Patterns(frame) ==
    LET sorted == SortValues(frame)
    IN  RapidSuccession(sorted, Unique(sorted), 1)
          \o RoundNumberBias(sorted)
          \o PotentialStructuring(sorted)

(***************************************************************************)
(* Aggregation and recommendations, lines 155-170.                         *)
(***************************************************************************)
\* [p.get('risk_score', 0) for p in patterns]
RiskScores(patterns) == [i \in 1..Len(patterns) |-> patterns[i].risk_score]

\* the sum numpy takes of fewer than 8 values: one after the other, from 0.0
RECURSIVE SumTo(_, _)
SumTo(scores, n) ==
    IF n = 0 THEN FZero ELSE FAdd(SumTo(scores, n - 1), scores[n])

\* a faulty variant: the sum of the scores, never divided by their number
OverallRiskTotal(risk_scores) == SumTo(risk_scores, Len(risk_scores))

\* np.mean(risk_scores) if risk_scores else 0.0
OverallRisk(risk_scores) ==
    IF Len(risk_scores) > 0
    THEN FDivInt(SumTo(risk_scores, Len(risk_scores)), Len(risk_scores))
    ELSE FZero

HasType(patterns, type) == \E i \in 1..Len(patterns) : patterns[i].type = type

\* a faulty variant: enhanced monitoring only from a risk over 0.6
RiskBannerFromSixTenths(overall_risk) ==
    IF FLess(F0_7, overall_risk)
    THEN <<"Immediate investigation recommended for high-risk patterns">>
    ELSE IF FLess(F0_6, overall_risk)
    THEN <<"Enhanced monitoring suggested for identified entities">>
    ELSE <<>>

\* a faulty variant: two independent tests instead of if / elif
RiskBannerBoth(overall_risk) ==
    (IF FLess(F0_7, overall_risk)
     THEN <<"Immediate investigation recommended for high-risk patterns">>
     ELSE <<>>)
      \o (IF FLess(F0_5, overall_risk)
          THEN <<"Enhanced monitoring suggested for identified entities">>
          ELSE <<>>)

\* lines 160-164
RiskBanner(overall_risk) ==
    IF FLess(F0_7, overall_risk)
    THEN <<"Immediate investigation recommended for high-risk patterns">>
    ELSE IF FLess(F0_5, overall_risk)
    THEN <<"Enhanced monitoring suggested for identified entities">>
    ELSE <<>>

\* a faulty variant: the structuring line ahead of the rapid-transaction line
RecommendationsStructuringFirst(overall_risk, patterns) ==
    RiskBanner(overall_risk)
      \o (IF HasType(patterns, "potential_structuring")
          THEN <<"Investigate potential structuring activities">>
          ELSE <<>>)
      \o (IF HasType(patterns, "rapid_succession")
          THEN <<"Review rapid transaction entities for potential automation">>
          ELSE <<>>)

\* lines 160-170
Recommendations(overall_risk, patterns) ==
    RiskBanner(overall_risk)
      \o (IF HasType(patterns, "rapid_succession")
          THEN <<"Review rapid transaction entities for potential automation">>
          ELSE <<>>)
      \o (IF HasType(patterns, "potential_structuring")
          THEN <<"Investigate potential structuring activities">>
          ELSE <<>>)

\* round(overall_risk, 3): numpy's round on the float64 mean, Python's on 0.0
RoundRisk(overall_risk, patterns) ==
    IF Len(patterns) > 0 THEN NpRound3(overall_risk) ELSE FZero

\* a faulty variant: every finding counted, with an entity_id or without
FlaggedEntitiesAllFindings(patterns) == Len(patterns)

\* len(set(p.get('entity_id') for p in patterns if 'entity_id' in p))
FlaggedEntities(patterns) ==
    Cardinality({patterns[i].entity_id :
        i \in {j \in 1..Len(patterns) : "entity_id" \in DOMAIN patterns[j]}})

\* a faulty variant: receivers counted along with senders
TotalEntitiesWithReceivers(frame) ==
    Cardinality({frame[i].sender_id : i \in 1..Len(frame)}
                  \cup {frame[i].receiver_id : i \in 1..Len(frame)})

\* len(df['sender_id'].unique())
TotalEntities(frame) == Len(Unique(SortValues(frame)))

\* the clock ticks this many times a second
TicksPerSecond == 1 + 1

\* f"batch_{datetime.utcnow().strftime('%Y%m%d_%H%M%S')}": the time to the
\* second, what is left of the second dropped
AnalysisId(now) == <<"batch_", ToString(now \div TicksPerSecond)>>

\* lines 95-107
EmptyResult(req, now) ==
    [analysis_id |-> AnalysisId(now),
     analysis_type |-> "suspicious_patterns",
     start_date |-> req.start_date,
     end_date |-> req.end_date,
     total_entities |-> 0,
     flagged_entities |-> 0,
     suspicious_transactions |-> 0,
     risk_score |-> FZero,
     patterns_detected |-> <<>>,
     recommendations |-> <<>>,
     created_at |-> now]

\* a faulty variant: the findings kept in a list of the service object, which
\* still holds those of the other request being served
AnalysisResultSharedFindings(req, frame, patterns, now) ==
    LET overall_risk == OverallRisk(RiskScores(patterns))
        FoundBy(res) == IF res.kind = "response"
                        THEN res.body.patterns_detected ELSE <<>>
    IN  [analysis_id |-> AnalysisId(now),
         analysis_type |-> "suspicious_patterns",
         start_date |-> req.start_date,
         end_date |-> req.end_date,
         total_entities |-> TotalEntities(frame),
         flagged_entities |-> FlaggedEntities(patterns),
         suspicious_transactions |-> Len(frame),
         risk_score |-> RoundRisk(overall_risk, patterns),
         patterns_detected |-> FoundBy(result) \o FoundBy(peer.result) \o patterns,
         recommendations |-> Recommendations(overall_risk, patterns),
         created_at |-> now]

\* lines 172-184
AnalysisResult(req, frame, patterns, now) ==
    LET overall_risk == OverallRisk(RiskScores(patterns))
    IN  [analysis_id |-> AnalysisId(now),
         analysis_type |-> "suspicious_patterns",
         start_date |-> req.start_date,
         end_date |-> req.end_date,
         total_entities |-> TotalEntities(frame),
         flagged_entities |-> FlaggedEntities(patterns),
         suspicious_transactions |-> Len(frame),
         risk_score |-> RoundRisk(overall_risk, patterns),
         patterns_detected |-> patterns,
         recommendations |-> Recommendations(overall_risk, patterns),
         created_at |-> now]


(***************************************************************************)
(* analyze_suspicious_patterns, lines 69-191, as one step: the coroutine   *)
(* never awaits, so nothing else of the service runs in between.           *)
(***************************************************************************)
\* what goes wrong during the call: the query raises, or the detection block
\* does on the rows fetched
Faults == {"none", "query", "detection"}

Ok(body) == [kind |-> "response", status_code |-> 200, body |-> body]

\* raise HTTPException(status_code=500, detail=f"Analysis failed: {str(e)}")
Http500(cause) ==
    [kind |-> "http_error", status_code |-> 500,
     detail |-> <<"Analysis failed: ", cause>>]

\* with self.Session() as session: opened on entry, closed on every exit
SessionEnter(n) == n + 1

\* a faulty variant: the session is left open
SessionExitLeaking(n) == n

SessionExit(n) == n - 1

\* str(e) of the exception raised
Cause(flt) == IF flt = "query" THEN "query failed" ELSE "detection failed"

\* a faulty variant: no test for an empty frame; sorting a frame without columns raises
AnalyzeWithoutShortCircuit(bag, req, order, flt, now) ==
    IF flt = "query"
    THEN [df |-> <<>>,
          result |-> Http500(Cause(flt)),
          trace |-> <<"session", "execute", "except">>]
    ELSE LET frame == Fetchall(bag, req, order)
         IN  IF frame = <<>> \/ flt = "detection"
             THEN [df |-> frame,
                   result |-> Http500(Cause("detection")),
                   trace |-> <<"session", "execute", "fetchall", "detect", "except">>]
             ELSE [df |-> frame,
                   result |-> Ok(AnalysisResult(req, frame, Patterns(frame), now)),
                   trace |-> <<"session", "execute", "fetchall", "detect",
                               "aggregate", "recommend", "result">>]

\* a faulty variant: a query that raises is taken for one that found nothing
AnalyzeSwallowingQueryFault(bag, req, order, flt, now) ==
    LET frame == IF flt = "query" THEN <<>> ELSE Fetchall(bag, req, order)
    IN  IF frame = <<>>
        THEN [df |-> frame,
              result |-> Ok(EmptyResult(req, now)),
              trace |-> <<"session", "execute", "fetchall", "empty">>]
        ELSE IF flt = "detection"
        THEN [df |-> frame,
              result |-> Http500(Cause(flt)),
              trace |-> <<"session", "execute", "fetchall", "detect", "except">>]
        ELSE [df |-> frame,
              result |-> Ok(AnalysisResult(req, frame, Patterns(frame), now)),
              trace |-> <<"session", "execute", "fetchall", "detect",
                          "aggregate", "recommend", "result">>]

\* a faulty variant: findings scored under the request's confidence_threshold
\* are dropped
AnalyzeGatedByConfidence(bag, req, order, flt, now) ==
    IF flt = "query"
    THEN [df |-> <<>>,
          result |-> Http500(Cause(flt)),
          trace |-> <<"session", "execute", "except">>]
    ELSE LET frame == Fetchall(bag, req, order)
             Confident(p) ==
                 ~FLess(p.risk_score, Lit(req.confidence_threshold, 100))
         IN  IF frame = <<>>
             THEN [df |-> frame,
                   result |-> Ok(EmptyResult(req, now)),
                   trace |-> <<"session", "execute", "fetchall", "empty">>]
             ELSE IF flt = "detection"
             THEN [df |-> frame,
                   result |-> Http500(Cause(flt)),
                   trace |-> <<"session", "execute", "fetchall", "detect", "except">>]
             ELSE [df |-> frame,
                   result |-> Ok(AnalysisResult(req, frame,
                                    SelectSeq(Patterns(frame), Confident), now)),
                   trace |-> <<"session", "execute", "fetchall", "detect",
                               "aggregate", "recommend", "result">>]

\* a faulty variant: a query that raises is sent a second time
AnalyzeRetrying(bag, req, order, flt, now) ==
    IF flt = "query"
    THEN [df |-> <<>>,
          result |-> Http500(Cause(flt)),
          trace |-> <<"session", "execute", "execute", "except">>]
    ELSE LET frame == Fetchall(bag, req, order)
         IN  IF frame = <<>>
             THEN [df |-> frame,
                   result |-> Ok(EmptyResult(req, now)),
                   trace |-> <<"session", "execute", "fetchall", "empty">>]
             ELSE IF flt = "detection"
             THEN [df |-> frame,
                   result |-> Http500(Cause(flt)),
                   trace |-> <<"session", "execute", "fetchall", "detect", "except">>]
             ELSE [df |-> frame,
                   result |-> Ok(AnalysisResult(req, frame, Patterns(frame), now)),
                   trace |-> <<"session", "execute", "fetchall", "detect",
                               "aggregate", "recommend", "result">>]

\* the outcome of one call: the frame fetched, what is returned or raised,
\* and the blocks of the method that ran
Analyze(bag, req, order, flt, now) ==
    IF flt = "query"
    THEN [df |-> <<>>,
          result |-> Http500(Cause(flt)),
          trace |-> <<"session", "execute", "except">>]
    ELSE LET frame == Fetchall(bag, req, order)
         IN  IF frame = <<>>
             THEN [df |-> frame,
                   result |-> Ok(EmptyResult(req, now)),
                   trace |-> <<"session", "execute", "fetchall", "empty">>]
             ELSE IF flt = "detection"
             THEN [df |-> frame,
                   result |-> Http500(Cause(flt)),
                   trace |-> <<"session", "execute", "fetchall", "detect", "except">>]
             ELSE [df |-> frame,
                   result |-> Ok(AnalysisResult(req, frame, Patterns(frame), now)),
                   trace |-> <<"session", "execute", "fetchall", "detect",
                               "aggregate", "recommend", "result">>]

NoRequest == [analysis_type |-> "none"]
NoResult == [kind |-> "none"]

\* the second request, when none is being served
NoPeer ==
    [pc |-> "idle", request |-> NoRequest, fault |-> "none", df |-> <<>>,
     result |-> NoResult, trace |-> <<>>]

\* every id the transactions of the model refer to
EntityIds == {1, 2, 3, 4}

\* the process has started and serves no request
Started ==
    /\ inserted = 0
    /\ clock = 0
    /\ tie_order \in TieOrders
    /\ pc = "idle"
    /\ request = NoRequest
    /\ fault = "none"
    /\ df = <<>>
    /\ result = NoResult
    /\ trace = <<>>
    /\ peer = NoPeer
    /\ sessions = 0

Init ==
    /\ store = EmptyBag
    /\ entities = EntityIds
    /\ Started

\* the ingest side stores one more transaction
InsertTransaction(row) ==
    /\ pc = "idle"
    /\ peer.pc = "idle"
    /\ inserted < MaxRows
    /\ store' = store (+) SetToBag({row})
    /\ inserted' = inserted + 1
    /\ UNCHANGED <<entities, clock, tie_order,
                   pc, request, fault, df, result, trace, peer, sessions>>

\* POST /analysis/batch with analysis_type = suspicious_patterns
AnalyzeSuspiciousPatterns(req, order, flt) ==
    /\ pc = "idle"
    /\ req.analysis_type = "suspicious_patterns"
    /\ LET out == Analyze(store, req, order, flt, clock)
       IN  /\ df' = out.df
           /\ result' = out.result
           /\ trace' = out.trace
    /\ request' = req
    /\ fault' = flt
    /\ sessions' = SessionExit(SessionEnter(sessions))
    /\ pc' = "responded"
    /\ UNCHANGED <<store, entities, inserted, clock, tie_order, peer>>

\* the response leaves the service
SendResponse ==
    /\ pc = "responded"
    /\ pc' = "idle"
    /\ request' = NoRequest
    /\ fault' = "none"
    /\ df' = <<>>
    /\ result' = NoResult
    /\ trace' = <<>>
    /\ UNCHANGED <<store, entities, inserted, clock, tie_order, peer, sessions>>

Next ==
    \/ \E row \in Population : InsertTransaction(row)
    \/ \E req \in Requests, order \in FetchOrders, flt \in Faults :
           AnalyzeSuspiciousPatterns(req, order, flt)
    \/ SendResponse

Spec == Init /\ [][Next]_vars

(***************************************************************************)
(* The same service on a table that already holds many rows: rows of two   *)
(* kinds, a round amount (1000.00) and one that is not (500.00); rows of   *)
(* 9000.00 may be stored later.                                            *)
(***************************************************************************)
RoundRow == Txn(1, 3, 100000, 0)
PlainRow == Txn(2, 1, 50000, 250)

NearRow == Txn(1, 3, 900000, 100)

BulkPopulation == {RoundRow, PlainRow, NearRow}

\* a table of n_plain plain rows and n_round round ones (both positive)
SeedTable(n_plain, n_round) ==
    [row \in {RoundRow, PlainRow} |-> IF row = PlainRow THEN n_plain ELSE n_round]

\* <<plain rows, round rows>> of the tables the runs start from
BulkSeeds == {<<8, 1>>, <<89, 10>>, <<5, 5>>}

InitBulk ==
    /\ \E seed \in BulkSeeds : store = SeedTable(seed[1], seed[2])
    /\ entities = EntityIds
    /\ Started

NextBulk ==
    \/ \E row \in BulkPopulation : InsertTransaction(row)
    \/ \E req \in Requests, order \in FetchOrders, flt \in Faults :
           AnalyzeSuspiciousPatterns(req, order, flt)
    \/ SendResponse

SpecBulk == InitBulk /\ [][NextBulk]_vars


(***************************************************************************)
(* The service with its clock running and two requests served at a time,   *)
(* on a table of rows with one timestamp, of two senders; an id may have   *)
(* no row in the entities table.                                           *)
(***************************************************************************)
\* how far the clock runs, in ticks
MaxClock == 2

\* time passes
Tick ==
    /\ clock < MaxClock
    /\ clock' = clock + 1
    /\ UNCHANGED <<store, entities, inserted, tie_order,
                   pc, request, fault, df, result, trace, peer, sessions>>

\* POST /analysis/batch, a second request while the first has not left
PeerAnalyzeSuspiciousPatterns(req, order, flt) ==
    /\ peer.pc = "idle"
    /\ req.analysis_type = "suspicious_patterns"
    /\ LET out == Analyze(store, req, order, flt, clock)
       IN  peer' = [pc |-> "responded", request |-> req, fault |-> flt,
                    df |-> out.df, result |-> out.result, trace |-> out.trace]
    /\ sessions' = SessionExit(SessionEnter(sessions))
    /\ UNCHANGED <<store, entities, inserted, clock, tie_order,
                   pc, request, fault, df, result, trace>>

\* the response to the second request leaves the service
PeerSendResponse ==
    /\ peer.pc = "responded"
    /\ peer' = NoPeer
    /\ UNCHANGED <<store, entities, inserted, clock, tie_order,
                   pc, request, fault, df, result, trace, sessions>>

TiedRow == Txn(2, 1, 50000, 0)

\* a table of n_tied rows of sender 2 and n_round rows of sender 1
TiedTable(n_tied, n_round) ==
    [row \in {RoundRow, TiedRow} |-> IF row = TiedRow THEN n_tied ELSE n_round]

\* <<rows of sender 2, rows of sender 1>> of the tables the runs start from
ServiceSeeds == {<<5, 5>>, <<1, 2>>}

\* the entities tables: every id, id 3 missing, or id 1 missing
EntityTables == {EntityIds, EntityIds \ {3}, EntityIds \ {1}}

InitService ==
    /\ \E seed \in ServiceSeeds : store = TiedTable(seed[1], seed[2])
    /\ entities \in EntityTables
    /\ Started

NextService ==
    \/ Tick
    \/ \E req \in Requests, order \in FetchOrders, flt \in Faults :
           AnalyzeSuspiciousPatterns(req, order, flt)
    \/ SendResponse
    \/ \E req \in Requests, order \in FetchOrders, flt \in Faults :
           PeerAnalyzeSuspiciousPatterns(req, order, flt)
    \/ PeerSendResponse

SpecService == InitService /\ [][NextService]_vars


(***************************************************************************)
(* POST /analysis/batch, lines 255-270: run_batch_analysis hands the       *)
(* request to the method for its analysis_type. The body runs on a         *)
(* BatchAnalysisRequest, so on one of the four types the model admits.     *)
(***************************************************************************)
\* a BatchAnalysisRequest for any of the analysis types
TypedRequest(type, sd, ed, th, conf) ==
    [Request(sd, ed, th, conf) EXCEPT !.analysis_type = type]

\* the pattern of the analysis_type field, line 41
AnalysisTypes ==
    {"suspicious_patterns", "network_analysis", "anomaly_detection",
     "compliance_check"}

\* raise HTTPException(status_code=400, detail=f"Unsupported analysis type: ...")
Http400(analysis_type) ==
    [kind |-> "http_error", status_code |-> 400,
     detail |-> <<"Unsupported analysis type: ", analysis_type>>]

\* f"network_{datetime.utcnow().strftime('%Y%m%d_%H%M%S')}"
NetworkId(now) == <<"network_", ToString(now \div TicksPerSecond)>>

\* analyze_network_patterns, lines 193-229: a template result, no query
NetworkResult(req, now) ==
    [analysis_id |-> NetworkId(now),
     analysis_type |-> "network_analysis",
     start_date |-> req.start_date,
     end_date |-> req.end_date,
     total_entities |-> 1000,
     flagged_entities |-> 18,
     suspicious_transactions |-> 45,
     risk_score |-> Lit(75, 100),
     patterns_detected |->
         << [type |-> "high_centrality_nodes",
             description |-> "Entities with unusually high connectivity",
             count |-> 15,
             risk_score |-> F0_7],
            [type |-> "circular_transactions",
             description |-> "Potential money laundering loops detected",
             count |-> 3,
             risk_score |-> F0_9] >>,
     recommendations |->
         <<"Investigate high-centrality entities for hub activity",
           "Analyze circular transaction patterns for money laundering">>,
     created_at |-> now]

\* a faulty variant: every type but network_analysis is run as
\* suspicious_patterns
RunDefaultingToSuspiciousPatterns(bag, req, order, flt, now) ==
    IF req.analysis_type = "network_analysis"
    THEN [df |-> <<>>,
          result |-> Ok(NetworkResult(req, now)),
          trace |-> <<"template">>]
    ELSE Analyze(bag, req, order, flt, now)

\* the body of run_batch_analysis, lines 262-270
Run(bag, req, order, flt, now) ==
    IF req.analysis_type = "suspicious_patterns"
    THEN Analyze(bag, req, order, flt, now)
    ELSE IF req.analysis_type = "network_analysis"
    THEN [df |-> <<>>,
          result |-> Ok(NetworkResult(req, now)),
          trace |-> <<"template">>]
    ELSE [df |-> <<>>,
          result |-> Http400(req.analysis_type),
          trace |-> <<"unsupported">>]

\* the run entered the block
Ran(blocks, block) == \E i \in 1..Len(blocks) : blocks[i] = block

\* the sessions open after a run that found n open: one more on entering the
\* with block, one less on leaving it
SessionsAfter(n, blocks) ==
    IF Ran(blocks, "session") THEN SessionExit(SessionEnter(n)) ELSE n

\* POST /analysis/batch
RunBatchAnalysis(req, order, flt) ==
    /\ pc = "idle"
    /\ req.analysis_type \in AnalysisTypes
    /\ LET out == Run(store, req, order, flt, clock)
       IN  /\ df' = out.df
           /\ result' = out.result
           /\ trace' = out.trace
           /\ sessions' = SessionsAfter(sessions, out.trace)
    /\ request' = req
    /\ fault' = flt
    /\ pc' = "responded"
    /\ UNCHANGED <<store, entities, inserted, clock, tie_order, peer>>

\* POST /analysis/batch, a second request while the first has not left
PeerRunBatchAnalysis(req, order, flt) ==
    /\ peer.pc = "idle"
    /\ req.analysis_type \in AnalysisTypes
    /\ LET out == Run(store, req, order, flt, clock)
       IN  /\ peer' = [pc |-> "responded", request |-> req, fault |-> flt,
                       df |-> out.df, result |-> out.result, trace |-> out.trace]
           /\ sessions' = SessionsAfter(sessions, out.trace)
    /\ UNCHANGED <<store, entities, inserted, clock, tie_order,
                   pc, request, fault, df, result, trace>>

\* six transactions of sender 1, 90 s apart: 1000.00, 2000.00, 9500.00,
\* 9999.99, 500.00 and 3000.00
ScenarioRows ==
    { Txn(1, 2, 100000, 0),
      Txn(1, 3, 200000, 90),
      Txn(1, 2, 950000, 180),
      Txn(1, 3, 999999, 270),
      Txn(1, 4, 50000, 360),
      Txn(1, 3, 300000, 450) }

ScenarioTable == SetToBag(ScenarioRows)

\* a transaction of 500.00 sent by s at the start of the period, and one 300 s
\* later
EarlyRow(s) == Txn(s, (s % 4) + 1, 50000, 0)
LateRow(s) == Txn(s, (s % 4) + 1, 50000, 300)

\* four senders of five transactions each, all starting at the same second:
\* senders 1 and 2 with a last one 300 s later (three rapid gaps), senders 3
\* and 4 with all five at once (four rapid gaps)
CrowdTable ==
    [row \in {EarlyRow(s) : s \in EntityIds} \cup {LateRow(1), LateRow(2)} |->
        IF row.timestamp = 0 /\ row.sender_id \in {3, 4} THEN 5
        ELSE IF row.timestamp = 0 THEN 4
        ELSE 1]

\* the requests sent: one of each type for the whole period, and a
\* suspicious_patterns one for a part of it
EndpointRequests ==
    {TypedRequest(type, 0, 699, NoAmount, DefaultConfidence) : type \in AnalysisTypes}
      \cup {Request(100, 300, NoAmount, DefaultConfidence)}

InitEndpoint ==
    /\ store \in {ScenarioTable, CrowdTable}
    /\ entities = EntityIds
    /\ Started

NextEndpoint ==
    \/ Tick
    \/ \E req \in EndpointRequests, order \in FetchOrders, flt \in Faults :
           RunBatchAnalysis(req, order, flt)
    \/ SendResponse
    \/ \E req \in EndpointRequests, order \in FetchOrders, flt \in Faults :
           PeerRunBatchAnalysis(req, order, flt)
    \/ PeerSendResponse

SpecEndpoint == InitEndpoint /\ [][NextEndpoint]_vars


(***************************************************************************)
(* Properties of the service, stated on the state after a call, with sets  *)
(* and integer arithmetic rather than the frames and floats of the code.   *)
(***************************************************************************)
Responded == pc = "responded"
Succeeded == Responded /\ result.kind = "response"
\* a call that fetched rows and returned a result
Detected == Succeeded /\ df # <<>>

Findings == result.body.patterns_detected
FindingsOf(type) == {i \in 1..Len(Findings) : Findings[i].type = type}

\* the fetched rows sent by s
RowsOf(s) == {i \in 1..Len(df) : df[i].sender_id = s}

\* the k-th smallest timestamp among the rows of s
KthTime(s, k) ==
    CHOOSE t \in {df[i].timestamp : i \in RowsOf(s)} :
        /\ Cardinality({i \in RowsOf(s) : df[i].timestamp < t}) < k
        /\ k <= Cardinality({i \in RowsOf(s) : df[i].timestamp <= t})

\* the gaps under 300 s between time-consecutive transactions of s
OwnRapidGaps(s) ==
    Cardinality({k \in 2..Cardinality(RowsOf(s)) :
        KthTime(s, k) - KthTime(s, k - 1) < 300})

RapidFindingsFor(s) ==
    {i \in FindingsOf("rapid_succession") : Findings[i].entity_id = ToString(s)}

\* C1: a rapid_succession finding for sender s is emitted iff s has at least 5
\* fetched transactions and at least 3 gaps under 300 s between its own
\* time-consecutive transactions; then there is exactly one, with entity_id
\* the sender's id and count the number of such gaps, whatever the other
\* senders did in between.
C1_RapidSuccessionIff ==
    Detected =>
        /\ \A s \in EntityIds :
              /\ (RapidFindingsFor(s) # {}) <=>
                    (Cardinality(RowsOf(s)) >= 5 /\ OwnRapidGaps(s) >= 3)
              /\ RapidFindingsFor(s) # {} =>
                    /\ Cardinality(RapidFindingsFor(s)) = 1
                    /\ \A i \in RapidFindingsFor(s) : Findings[i].count = OwnRapidGaps(s)
        /\ \A i \in FindingsOf("rapid_succession") :
              \E s \in EntityIds : RowsOf(s) # {} /\ i \in RapidFindingsFor(s)

\* a finding for sender 1 while a transaction of sender 2 lies strictly between
\* two of sender 1's in time, and sender 2 has none
C1_Witness ==
    /\ Detected
    /\ RapidFindingsFor(1) # {}
    /\ RapidFindingsFor(2) = {}
    /\ \E i \in RowsOf(1), j \in RowsOf(1), m \in RowsOf(2) :
          df[i].timestamp < df[m].timestamp /\ df[m].timestamp < df[j].timestamp

\* s sent exactly 5 fetched transactions, each 100 s after the one before
FiveSpaced100(s) ==
    /\ Cardinality(RowsOf(s)) = 5
    /\ \A k \in 2..5 : KthTime(s, k) - KthTime(s, k - 1) = 100

\* C2: every rapid_succession finding has risk_score = min(0.9, 0.2 * count)
\* (as floats); 5 transactions 100 s apart give count 4 and 0.8; a sender with
\* only 2 rapid gaps gets no finding.
C2_RapidRiskScore ==
    Detected =>
        /\ \A i \in FindingsOf("rapid_succession") :
              LET c == Findings[i].count
                  x == FMulInt(F0_2, c)
              IN  /\ Findings[i].risk_score = IF FLess(x, F0_9) THEN x ELSE F0_9
                  /\ c = 4 => Findings[i].risk_score = F0_8
                  /\ c >= 5 => Findings[i].risk_score = F0_9
        /\ \A s \in EntityIds :
              /\ FiveSpaced100(s) =>
                    \E i \in RapidFindingsFor(s) :
                        Findings[i].count = 4 /\ Findings[i].risk_score = F0_8
              /\ OwnRapidGaps(s) = 2 => RapidFindingsFor(s) = {}

\* the 5-transactions-100-s-apart sender, and another run's worth of rows
C2_Witness ==
    /\ Detected
    /\ FiveSpaced100(1)
    /\ \E i \in RapidFindingsFor(1) :
          Findings[i].count = 4 /\ Findings[i].risk_score = F0_8


\* the fetched rows whose amount is a whole multiple of 1000.00
RoundRows == {i \in 1..Len(df) : df[i].amount % 100000 = 0}

\* num / den to the nearest integer, halves to the even one
NearestInt(num, den) ==
    LET q == num \div den
        r == num % den
    IN  IF 2 * r > den \/ (2 * r = den /\ q % 2 = 1) THEN q + 1 ELSE q

\* C3: a round_number_bias finding is emitted iff the transactions with an
\* amount of a whole multiple of 1000 are strictly more than 10% of the fetched
\* ones (10 of 100: none; 11 of 100: one, with percentage 11.0); it is a single
\* finding with that count, percentage count/total*100 (to 2 decimals), risk
\* score 0.6 and no entity_id.
C3_RoundNumberBiasIff ==
    Detected =>
        LET c    == Cardinality(RoundRows)
            n    == Len(df)
            hits == FindingsOf("round_number_bias")
        IN  /\ (hits # {}) <=> (10 * c > n)
            /\ Cardinality(hits) <= 1
            /\ \A i \in hits :
                  /\ Findings[i].count = c
                  /\ Findings[i].percentage = Lit(NearestInt(10000 * c, n), 100)
                  /\ Findings[i].risk_score = F0_6
                  /\ "entity_id" \notin DOMAIN Findings[i]
            /\ (n = 100 /\ c = 10) => hits = {}
            /\ (n = 100 /\ c = 11) =>
                  \E i \in hits : Findings[i].percentage = FromInt(11)

\* 11 round amounts among 100 fetched rows, and the finding with 11.0
C3_Witness ==
    /\ Detected
    /\ Len(df) = 100
    /\ Cardinality(RoundRows) = 11
    /\ \E i \in FindingsOf("round_number_bias") :
          Findings[i].count = 11 /\ Findings[i].percentage = FromInt(11)


\* the fetched rows with 9000.00 <= amount < 10000.00, in cents
NearRows == {i \in 1..Len(df) : 900000 <= df[i].amount /\ df[i].amount < 1000000}

HasAmount(cents) == \E i \in 1..Len(df) : df[i].amount = cents

\* C4: a potential_structuring finding is emitted iff at least one fetched
\* transaction has 9000 <= amount < 10000 (9000 counts, 10000 and 8999.99 do
\* not); it is a single finding whose count is the number of such transactions,
\* with risk score 0.8 and no entity_id.
C4_PotentialStructuringIff ==
    Detected =>
        LET hits == FindingsOf("potential_structuring")
        IN  /\ (hits # {}) <=> (NearRows # {})
            /\ Cardinality(hits) <= 1
            /\ \A i \in hits :
                  /\ Findings[i].count = Cardinality(NearRows)
                  /\ Findings[i].risk_score = F0_8
                  /\ "entity_id" \notin DOMAIN Findings[i]
            /\ (\A i \in 1..Len(df) : df[i].amount \in {1000000, 899999}) => hits = {}
            /\ HasAmount(900000) => hits # {}

\* rows of 9000.00, 10000.00 and 8999.99 fetched together: only the first counts
C4_Witness ==
    /\ Detected
    /\ HasAmount(900000) /\ HasAmount(1000000) /\ HasAmount(899999)
    /\ ~HasAmount(999999)
    /\ \E i \in FindingsOf("potential_structuring") :
          Findings[i].count = Cardinality({j \in 1..Len(df) : df[j].amount = 900000})


\* a score as a whole number of tenths
Tenths(score) == Rint(MulExact(score, 10))

\* the tenths of the first k findings, added up
RECURSIVE TenthsUpTo(_)
TenthsUpTo(k) ==
    IF k = 0 THEN 0 ELSE TenthsUpTo(k - 1) + Tenths(Findings[k].risk_score)

\* the mean of the findings' scores in thousandths, to the nearest one
MeanThousandths == NearestInt(100 * TenthsUpTo(Len(Findings)), Len(Findings))

ScoresAre(scores) ==
    /\ Len(Findings) = Len(scores)
    /\ \A i \in 1..Len(scores) : Findings[i].risk_score = scores[i]

\* C5: the result's risk_score is the unweighted arithmetic mean of the risk
\* scores of the findings in patterns_detected, each counted once, rounded to 3
\* decimals; it is exactly 0.0 when there is no finding; scores 0.8, 0.6, 0.8
\* give 0.733.
C5_RiskScoreIsMean ==
    Succeeded =>
        /\ Len(Findings) = 0 => result.body.risk_score = FZero
        /\ Len(Findings) > 0 => result.body.risk_score = Lit(MeanThousandths, 1000)
        /\ ScoresAre(<<F0_8, F0_6, F0_8>>) => result.body.risk_score = Lit(733, 1000)

\* findings scored 0.8, 0.6 and 0.8, of counts 4, 3 and 2, and the result 0.733
C5_Witness ==
    /\ Detected
    /\ ScoresAre(<<F0_8, F0_6, F0_8>>)
    /\ Findings[1].count # Findings[2].count
    /\ result.body.risk_score = Lit(733, 1000)


ImmediateLine == "Immediate investigation recommended for high-risk patterns"
EnhancedLine == "Enhanced monitoring suggested for identified entities"
RapidLine == "Review rapid transaction entities for potential automation"
StructuringLine == "Investigate potential structuring activities"

Recs == result.body.recommendations
Occurrences(line) == Cardinality({i \in 1..Len(Recs) : Recs[i] = line})

\* C6: the recommendations hold at most one of the two risk-banner lines, never
\* both; a risk of 0.75 gives the Immediate investigation line only.
C6_AtMostOneBanner ==
    Succeeded =>
        /\ Occurrences(ImmediateLine) + Occurrences(EnhancedLine) <= 1
        /\ result.body.risk_score = Lit(75, 100) =>
              Occurrences(ImmediateLine) = 1 /\ Occurrences(EnhancedLine) = 0

\* findings scored 0.9 and 0.6: a risk of 0.75
C6_Witness ==
    /\ Detected
    /\ ScoresAre(<<F0_9, F0_6>>)
    /\ result.body.risk_score = Lit(75, 100)
    /\ Occurrences(ImmediateLine) = 1


\* the mean of the findings' scores is over 0.5
MeanOverHalf ==
    Len(Findings) > 0 /\ TenthsUpTo(Len(Findings)) > 5 * Len(Findings)

\* C7: the recommendations are exactly, in this order, the risk-banner line
\* (iff the aggregate risk is over 0.5), the rapid-transaction review line (iff
\* some finding is a rapid_succession) and the structuring line (iff some
\* finding is a potential_structuring); no line twice, none without its
\* condition.
C7_RecommendationsOrder ==
    Succeeded =>
        \E banner \in {ImmediateLine, EnhancedLine} :
            Recs = (IF MeanOverHalf THEN <<banner>> ELSE <<>>)
                     \o (IF FindingsOf("rapid_succession") # {}
                         THEN <<RapidLine>> ELSE <<>>)
                     \o (IF FindingsOf("potential_structuring") # {}
                         THEN <<StructuringLine>> ELSE <<>>)

\* all three lines, in their order
C7_Witness ==
    /\ Detected
    /\ Len(Recs) = 3
    /\ Recs[1] \in {ImmediateLine, EnhancedLine}
    /\ Recs[2] = RapidLine
    /\ Recs[3] = StructuringLine


\* the stored rows the request selects
Selected ==
    {row \in BagToSet(store) :
        /\ request.start_date <= row.timestamp
        /\ row.timestamp <= request.end_date
        /\ (request.threshold_amount = NoAmount
              \/ row.amount >= request.threshold_amount)}

\* those of them the query returns: both parties have a row in entities
Fetchable ==
    {row \in Selected : row.sender_id \in entities /\ row.receiver_id \in entities}

Visited(block) == \E i \in 1..Len(trace) : trace[i] = block

\* C8: when the date- and amount-filtered transaction set is empty (and the
\* query did not fail), the call returns a success result with total_entities,
\* flagged_entities and suspicious_transactions 0, risk_score 0.0 and empty
\* patterns_detected and recommendations, evaluates no detection rule and
\* reports no error.
C8_EmptyShortCircuit ==
    (Responded /\ fault # "query" /\ Fetchable = {}) =>
        /\ result.kind = "response"
        /\ result.status_code = 200
        /\ result.body.total_entities = 0
        /\ result.body.flagged_entities = 0
        /\ result.body.suspicious_transactions = 0
        /\ result.body.risk_score = FZero
        /\ result.body.patterns_detected = <<>>
        /\ result.body.recommendations = <<>>
        /\ ~Visited("detect")
        /\ ~Visited("except")

\* rows are stored, the request selects none of them, and the zero result
C8_Witness ==
    /\ Responded
    /\ fault = "none"
    /\ store # EmptyBag
    /\ Fetchable = {}
    /\ result.kind = "response"
    /\ result.body.suspicious_transactions = 0


\* C9: in a result on a non-empty set, total_entities is the number of distinct
\* sender ids of the fetched rows (a receiver that never sends is not
\* counted), flagged_entities the number of distinct entity ids among the
\* findings that carry one, and suspicious_transactions the number of fetched
\* rows, implicated in a finding or not.
C9_Counts ==
    Detected =>
        /\ result.body.total_entities =
              Cardinality({s \in EntityIds : RowsOf(s) # {}})
        /\ result.body.flagged_entities =
              Cardinality({s \in EntityIds : RapidFindingsFor(s) # {}})
        /\ result.body.suspicious_transactions = Len(df)
        /\ \A i \in 1..Len(Findings) :
              "entity_id" \in DOMAIN Findings[i] =>
                  Findings[i].type = "rapid_succession"

\* two senders, one of them flagged, and a receiver that never sends
C9_Witness ==
    /\ Detected
    /\ RowsOf(3) = {}
    /\ \E i \in 1..Len(df) : df[i].receiver_id = 3
    /\ result.body.total_entities = 2
    /\ result.body.flagged_entities = 1
    /\ RapidFindingsFor(2) = {}
    /\ result.body.suspicious_transactions = Cardinality(RowsOf(1)) + Cardinality(RowsOf(2))


Failed(cause) ==
    /\ result.kind = "http_error"
    /\ result.status_code = 500
    /\ result.detail = <<"Analysis failed: ", cause>>

\* C10: a query that fails, or a fault while detecting or aggregating, reaches
\* the caller as HTTP 500 carrying the cause, never as a success result; a
\* success without data is the short-circuit on an empty set alone, after a
\* fetch that succeeded and returned no row.
C10_FailuresSurface ==
    Responded =>
        /\ fault = "query" => Failed("query failed")
        /\ (fault = "detection" /\ Fetchable # {}) => Failed("detection failed")
        /\ (Succeeded /\ result.body.suspicious_transactions = 0) =>
              /\ fault # "query"
              /\ Fetchable = {}
              /\ df = <<>>
              /\ trace = <<"session", "execute", "fetchall", "empty">>
        /\ Succeeded =>
              /\ fault # "query"
              /\ fault = "detection" => Fetchable = {}

\* the query fails on a table whose rows the request would have selected
C10_Witness ==
    /\ Responded
    /\ fault = "query"
    /\ Fetchable # {}
    /\ Failed("query failed")


\* C11: a request whose end_date is earlier than its start_date is rejected
\* as a validation failure at once, before any transaction is fetched; it
\* never gets a success result.
C11_ReversedRangeRejected ==
    (Responded /\ request.end_date < request.start_date) =>
        /\ result.kind = "http_error"
        /\ ~Visited("execute")


PeerResponded == peer.pc = "responded"
PeerSucceeded == PeerResponded /\ peer.result.kind = "response"

\* C12: analysis_id is unique per run: any two runs, also two that start in
\* the same clock second and runs that take the empty-set short-circuit,
\* return different analysis_id values.
C12_AnalysisIdUnique ==
    (Succeeded /\ PeerSucceeded) =>
        result.body.analysis_id # peer.result.body.analysis_id


\* the two requests in hand are the same and fetched the same rows in the
\* same order
SameInput == request = peer.request /\ df = peer.df

RuleRank(type) ==
    IF type = "rapid_succession" THEN 1
    ELSE IF type = "round_number_bias" THEN 2 ELSE 3

\* the sender a rapid_succession finding is about
SenderOf(i) == CHOOSE s \in EntityIds : ToString(s) = Findings[i].entity_id

\* the earliest timestamp of the fetched rows of s
EarliestOf(s) ==
    CHOOSE t \in {df[i].timestamp : i \in RowsOf(s)} :
        \A i \in RowsOf(s) : t <= df[i].timestamp

\* the first fetched row of s that has its earliest timestamp
EarliestRowOf(s) ==
    CHOOSE i \in RowsOf(s) :
        /\ df[i].timestamp = EarliestOf(s)
        /\ \A j \in RowsOf(s) : df[j].timestamp = EarliestOf(s) => i <= j

\* the earliest transaction of s comes before that of t once the rows are
\* sorted by timestamp with ties kept in input order
EarlierSender(s, t) ==
    \/ EarliestOf(s) < EarliestOf(t)
    \/ EarliestOf(s) = EarliestOf(t) /\ EarliestRowOf(s) < EarliestRowOf(t)

\* C14: patterns_detected is in rule order: the rapid_succession findings
\* first, one per qualifying sender, in the order of the senders' earliest
\* transactions after a stable ascending sort by timestamp (rows of equal
\* timestamp keep their input order), then the round_number_bias finding, then
\* the potential_structuring finding.
C14_FindingsOrder ==
    Detected =>
        /\ \A i, j \in 1..Len(Findings) :
              i < j => RuleRank(Findings[i].type) <= RuleRank(Findings[j].type)
        /\ \A s \in EntityIds : Cardinality(RapidFindingsFor(s)) <= 1
        /\ \A i, j \in FindingsOf("rapid_succession") :
              i < j => EarlierSender(SenderOf(i), SenderOf(j))


\* a response without its analysis_id and created_at
Content(res) ==
    IF res.kind = "response"
    THEN [status_code |-> res.status_code,
          analysis_type |-> res.body.analysis_type,
          start_date |-> res.body.start_date,
          end_date |-> res.body.end_date,
          total_entities |-> res.body.total_entities,
          flagged_entities |-> res.body.flagged_entities,
          suspicious_transactions |-> res.body.suspicious_transactions,
          risk_score |-> res.body.risk_score,
          patterns_detected |-> res.body.patterns_detected,
          recommendations |-> res.body.recommendations]
    ELSE res

\* the first request's side of the state
Mine == <<pc, request, fault, df, result, trace>>

\* a run served while another is in hand gives what the other, served alone on
\* the same rows, gave
SameAsAlone ==
    (Responded /\ PeerResponded /\ SameInput /\ fault = peer.fault) =>
        Content(result) = Content(peer.result)

\* a step of one run leaves the other run's request, rows, findings and
\* response as they are
OwnStateOnly ==
    /\ peer' # peer => Mine' = Mine
    /\ Mine' # Mine => peer' = peer

\* C15: requests served at the same time by the one BatchAnalysisService do
\* not interact: in any interleaving each run's result, apart from analysis_id
\* and created_at, is the one it gives alone on its own fetched rows, and no
\* run sees or changes the rows, findings or recommendations of another.
C15_NoInteraction == []SameAsAlone /\ [][OwnStateOnly]_vars

\* two requests in hand at once: one with three findings on ten rows, the
\* other, for another period, with none
C15_Witness ==
    /\ Detected /\ PeerSucceeded
    /\ request # peer.request
    /\ Len(df) = 10
    /\ Len(Findings) = 3
    /\ peer.df = <<>>
    /\ peer.result.body.patterns_detected = <<>>


\* how many times the row was fetched
TimesFetched(row) == Cardinality({i \in 1..Len(df) : df[i] = row})

\* C16: the transactions analysed are exactly the stored ones whose timestamp
\* lies in the closed interval [start_date, end_date] and, when
\* threshold_amount is given, whose amount is at least threshold_amount (an
\* amount equal to it is included); without threshold_amount no amount filter
\* is applied.
C16_AnalysedAreTheSelected ==
    (Responded /\ fault # "query") =>
        /\ \A row \in Selected : TimesFetched(row) = store[row]
        /\ \A i \in 1..Len(df) : df[i] \in Selected


\* the two requests in hand differ in confidence_threshold and in nothing else
DifferInConfidenceOnly ==
    /\ Responded /\ PeerResponded
    /\ request.confidence_threshold # peer.request.confidence_threshold
    /\ [request EXCEPT !.confidence_threshold = 0]
         = [peer.request EXCEPT !.confidence_threshold = 0]

\* a response without analysis_id, created_at and the request's dates
Outcome(res) ==
    IF res.kind = "response"
    THEN [status_code |-> res.status_code,
          total_entities |-> res.body.total_entities,
          flagged_entities |-> res.body.flagged_entities,
          suspicious_transactions |-> res.body.suspicious_transactions,
          risk_score |-> res.body.risk_score,
          patterns_detected |-> res.body.patterns_detected,
          recommendations |-> res.body.recommendations]
    ELSE res

\* C17: confidence_threshold is inert: two suspicious_patterns requests that
\* differ only in confidence_threshold, run on the same stored transactions,
\* have the same outcome: the same findings, risk_score, recommendations and
\* counters, or the same failure.
C17_ConfidenceInert ==
    (DifferInConfidenceOnly /\ df = peer.df /\ fault = peer.fault) =>
        Outcome(result) = Outcome(peer.result)

\* confidence thresholds 0.8 and 1.0 on the same ten rows: the same three
\* findings, one of them scored 0.6
C17_Witness ==
    /\ DifferInConfidenceOnly
    /\ Detected /\ PeerSucceeded
    /\ df = peer.df
    /\ Len(df) = 10
    /\ \E i \in 1..Len(Findings) : Findings[i].risk_score = F0_6
    /\ peer.result.body.patterns_detected = Findings


\* how many times the run entered the block
TimesVisited(block) == Cardinality({i \in 1..Len(trace) : trace[i] = block})

\* the run sent its query once, whatever came of it
QueriedOnce == Responded => TimesVisited("execute") = 1

\* a step of a run, from the request to the response leaving, stores nothing
RunsStoreNothing ==
    pc' # pc => store' = store /\ entities' = entities /\ inserted' = inserted

\* C18: a run leaves the transaction store as it was and queries it exactly
\* once: on every path (result, empty short-circuit, failure) the stored
\* transactions after the run are those before it, no finding or result is
\* stored, and a query that failed is not sent again.
C18_ReadOnlyOneQuery == []QueriedOnce /\ [][RunsStoreNothing]_vars

\* a failed query on a table with rows: one execute, then the except block
C18_Witness ==
    /\ Responded
    /\ fault = "query"
    /\ inserted > 0
    /\ store # EmptyBag
    /\ trace = <<"session", "execute", "except">>


\* round_number_bias fired and no other rule did
RoundBiasAlone ==
    /\ Detected
    /\ FindingsOf("round_number_bias") # {}
    /\ FindingsOf("rapid_succession") = {}
    /\ FindingsOf("potential_structuring") = {}

\* C19 as stated: a run in which round_number_bias fired and neither
\* rapid_succession nor potential_structuring did has an aggregate risk of at
\* most 0.5 and an empty recommendations list. (Every such run has the one
\* finding scored 0.6, so one of them has the empty list iff all have.)
C19_EmptyWithRoundBias ==
    RoundBiasAlone =>
        /\ ~FLess(F0_5, result.body.risk_score)
        /\ Recs = <<>>

\* C19, amended: the recommendations are never empty in a run in which
\* round_number_bias fired; when it is the only finding the aggregate risk is
\* 0.6, over 0.5, and the recommendations are the Enhanced monitoring line
\* alone.
C19_RoundBiasGetsBanner ==
    /\ (Detected /\ FindingsOf("round_number_bias") # {}) => Recs # <<>>
    /\ RoundBiasAlone =>
          /\ result.body.risk_score = F0_6
          /\ FLess(F0_5, result.body.risk_score)
          /\ Recs = <<EnhancedLine>>

\* round_number_bias as the only finding, and the one line it gets
C19_Witness ==
    /\ RoundBiasAlone
    /\ Len(Findings) = 1
    /\ Recs = <<EnhancedLine>>


\* the senders with enough fetched rows and enough rapid gaps of their own
QualifyingSenders ==
    {s \in EntityIds : Cardinality(RowsOf(s)) >= 5 /\ OwnRapidGaps(s) >= 3}

RoundBiasDue == 10 * Cardinality(RoundRows) > Len(df)
StructuringDue == NearRows # {}

\* C20: on every non-empty run the three rules are all evaluated, each on its
\* own: no early exit and no mutual exclusion. Whether a rule fires goes by
\* its own condition alone, a transaction counts toward every finding it fits
\* (9000 is a round amount and a near-threshold amount), and two qualifying
\* senders get two separate rapid_succession findings in the same run.
C20_RulesIndependent ==
    Detected =>
        /\ Cardinality(FindingsOf("rapid_succession")) = Cardinality(QualifyingSenders)
        /\ (FindingsOf("round_number_bias") # {}) <=> RoundBiasDue
        /\ (FindingsOf("potential_structuring") # {}) <=> StructuringDue
        /\ Len(Findings) = Cardinality(QualifyingSenders)
                             + (IF RoundBiasDue THEN 1 ELSE 0)
                             + (IF StructuringDue THEN 1 ELSE 0)
        /\ \A i \in FindingsOf("round_number_bias") :
              Findings[i].count = Cardinality(RoundRows)
        /\ \A i \in FindingsOf("potential_structuring") :
              Findings[i].count = Cardinality(NearRows)
        /\ \A s, t \in QualifyingSenders :
              s # t => RapidFindingsFor(s) \cap RapidFindingsFor(t) = {}

\* two qualifying senders and a row of 9000.00: four findings, the row counted
\* as a round amount and as a near-threshold amount
C20_Witness ==
    /\ Detected
    /\ Cardinality(QualifyingSenders) = 2
    /\ Cardinality(FindingsOf("rapid_succession")) = 2
    /\ HasAmount(900000)
    /\ RoundRows \cap NearRows # {}
    /\ Len(Findings) = 4
    /\ \E i \in FindingsOf("round_number_bias") :
          Findings[i].count = Cardinality(RoundRows)
    /\ \E i \in FindingsOf("potential_structuring") :
          Findings[i].count = Cardinality(NearRows)


One == FromInt(1)

\* C21: every finding's risk_score lies in [0, 1] and so does the aggregate
\* risk_score of every result, whatever rows were fetched and however many
\* senders qualify. (A score is kept as a magnitude: it is never below 0.)
C21_ScoresInUnitInterval ==
    Succeeded =>
        /\ \A i \in 1..Len(Findings) :
              /\ ~FLess(Findings[i].risk_score, FZero)
              /\ ~FLess(One, Findings[i].risk_score)
        /\ ~FLess(result.body.risk_score, FZero)
        /\ ~FLess(One, result.body.risk_score)

\* two qualifying senders, one of them with nine rapid gaps: its finding is
\* scored 0.9, not 1.8
C21_Witness ==
    /\ Detected
    /\ Cardinality(QualifyingSenders) = 2
    /\ \E i \in FindingsOf("rapid_succession") :
          Findings[i].count = 9 /\ Findings[i].risk_score = F0_9
    /\ FLess(FZero, result.body.risk_score)
    /\ ~FLess(One, result.body.risk_score)


\* how many times each element occurs in a sequence
BagOfSeq(s) ==
    [x \in {s[i] : i \in 1..Len(s)} |-> Cardinality({i \in 1..Len(s) : s[i] = x})]

\* a suspicious_patterns run that fetched exactly the six scenario rows
ScenarioRun ==
    /\ Detected
    /\ request.analysis_type = "suspicious_patterns"
    /\ BagOfSeq(df) = ScenarioTable

\* C22: on six transactions of the single sender 1, of 1000, 2000, 9500,
\* 9999.99, 500 and 3000, 90 s apart, the run emits exactly three findings in
\* this order: rapid_succession for sender 1 with count 5 and risk_score 0.9;
\* round_number_bias with count 3, percentage 50.0 and risk_score 0.6;
\* potential_structuring with count 2 and risk_score 0.8; total_entities is 1,
\* flagged_entities 1 and suspicious_transactions 6.
C22_Scenario ==
    ScenarioRun =>
        /\ Len(Findings) = 3
        /\ Findings[1].type = "rapid_succession"
        /\ Findings[1].entity_id = "1"
        /\ Findings[1].count = 5
        /\ Findings[1].risk_score = F0_9
        /\ Findings[2].type = "round_number_bias"
        /\ Findings[2].count = 3
        /\ Findings[2].percentage = FromInt(50)
        /\ Findings[2].risk_score = F0_6
        /\ Findings[3].type = "potential_structuring"
        /\ Findings[3].count = 2
        /\ Findings[3].risk_score = F0_8
        /\ result.body.total_entities = 1
        /\ result.body.flagged_entities = 1
        /\ result.body.suspicious_transactions = 6

\* the scenario rows fetched in the order opposite to their timestamps, and
\* the three findings
C22_Witness ==
    /\ ScenarioRun
    /\ df[1].timestamp > df[6].timestamp
    /\ Len(Findings) = 3
    /\ Findings[2].percentage = FromInt(50)


\* the same for the second request
PeerVisited(block) == \E i \in 1..Len(peer.trace) : peer.trace[i] = block

\* the run is turned away with HTTP 400 and has not touched the store
Rejected(res, rows, blocks) ==
    /\ res.kind = "http_error"
    /\ res.status_code = 400
    /\ rows = <<>>
    /\ \A i \in 1..Len(blocks) : blocks[i] \notin {"session", "execute", "fetchall"}

DottedLines ==
    {"Immediate investigation recommended for high-risk patterns.",
     "Enhanced monitoring suggested for identified entities.",
     "Review rapid transaction entities for potential automation.",
     "Investigate potential structuring activities."}

\* C24: every recommendation string returned by a suspicious-patterns run is
\* one of the four texts of the specification, character for character,
\* trailing period included.
C24_RecommendationTexts ==
    Succeeded => \A i \in 1..Len(Recs) : Recs[i] \in DottedLines


\* the time from the (k-1)-th to the k-th transaction of s, in seconds
Gap(s, k) == KthTime(s, k) - KthTime(s, k - 1)

\* the gaps of s of exactly g seconds, and those of lo..hi seconds
GapsOf(s, g) == {k \in 2..Cardinality(RowsOf(s)) : Gap(s, k) = g}
GapsWithin(s, lo, hi) ==
    {k \in 2..Cardinality(RowsOf(s)) : lo <= Gap(s, k) /\ Gap(s, k) <= hi}

\* C25: the rapid-gap test is strict at its boundary: the count of a
\* rapid_succession finding takes in the sender's gaps of 0 s (equal
\* timestamps) and of 299 s and leaves out those of exactly 300 s; the first
\* transaction of a sender contributes no gap, so the count of a sender with n
\* transactions is at most n - 1.
C25_RapidGapBoundary ==
    Detected =>
        \A s \in EntityIds : \A i \in RapidFindingsFor(s) :
            LET n == Cardinality(RowsOf(s))
            IN  /\ Findings[i].count = Cardinality(GapsWithin(s, 0, 299))
                /\ Findings[i].count >=
                      Cardinality(GapsOf(s, 0)) + Cardinality(GapsOf(s, 299))
                /\ Findings[i].count <= (n - 1) - Cardinality(GapsOf(s, 300))
                /\ Findings[i].count <= n - 1

\* six transactions of sender 1 with gaps of 0, 299 and 300 s among the five:
\* the count is 4
C25_Witness ==
    /\ Detected
    /\ Cardinality(RowsOf(1)) = 6
    /\ GapsOf(1, 0) # {} /\ GapsOf(1, 299) # {}
    /\ Cardinality(GapsOf(1, 300)) = 1
    /\ \E i \in RapidFindingsFor(1) : Findings[i].count = 4


\* the mean of the findings' scores, each taken as its number of tenths, is
\* exactly 0.7
MeanIsSevenTenths ==
    Len(Findings) > 0 /\ TenthsUpTo(Len(Findings)) = 7 * Len(Findings)

\* one rapid_succession finding with count 3 and one potential_structuring
\* finding, nothing else
RapidThreeAndStructuring ==
    /\ Len(Findings) = 2
    /\ Findings[1].type = "rapid_succession"
    /\ Findings[1].count = 3
    /\ Findings[2].type = "potential_structuring"

\* C26: the risk-banner thresholds are strict: a run whose aggregate risk is
\* exactly 0.7 (such as one rapid_succession finding with count 3, scored 0.6,
\* plus one potential_structuring finding, scored 0.8) carries the Enhanced
\* monitoring line and not the Immediate investigation line; the decision goes
\* by the mean itself, so the Immediate investigation line appears exactly
\* when the mean of the scores is over 0.7.
C26_StrictBanner ==
    Succeeded =>
        /\ MeanIsSevenTenths =>
              Occurrences(EnhancedLine) = 1 /\ Occurrences(ImmediateLine) = 0
        /\ RapidThreeAndStructuring =>
              Occurrences(EnhancedLine) = 1 /\ Occurrences(ImmediateLine) = 0
        /\ Occurrences(ImmediateLine) = 1 <=>
              (Len(Findings) > 0 /\ TenthsUpTo(Len(Findings)) > 7 * Len(Findings))


PeerFindings == peer.result.body.patterns_detected

\* the sender a rapid_succession finding of the second request is about
PeerSenderOf(i) == CHOOSE s \in EntityIds : ToString(s) = PeerFindings[i].entity_id

\* the two requests in hand are the same and fetched the same rows, in
\* whatever order each
SameRows == request = peer.request /\ BagOfSeq(df) = BagOfSeq(peer.df)

\* the findings of the two runs differ in nothing but the places of
\* rapid_succession findings of senders whose earliest transactions share a
\* timestamp
SameUpToTiedSenders ==
    /\ BagOfSeq(Findings) = BagOfSeq(PeerFindings)
    /\ \A i \in 1..Len(Findings) :
          Findings[i] # PeerFindings[i] =>
              /\ Findings[i].type = "rapid_succession"
              /\ PeerFindings[i].type = "rapid_succession"
              /\ EarliestOf(SenderOf(i)) = EarliestOf(PeerSenderOf(i))

\* C27: the multiset of findings, the aggregate risk_score, the
\* recommendations and the three counters of a run do not depend on the order
\* of the input rows: two runs of one request on the same rows in different
\* orders agree on all of them; the order can change at most the relative
\* order of the rapid_succession findings of senders whose earliest
\* transactions share a timestamp.
C27_PermutationInvariant ==
    (Succeeded /\ PeerSucceeded /\ SameRows) =>
        /\ SameUpToTiedSenders
        /\ result.body.risk_score = peer.result.body.risk_score
        /\ result.body.recommendations = peer.result.body.recommendations
        /\ result.body.total_entities = peer.result.body.total_entities
        /\ result.body.flagged_entities = peer.result.body.flagged_entities
        /\ result.body.suspicious_transactions = peer.result.body.suspicious_transactions


\* C28: the aggregate risk_score of a result of analyze_suspicious_patterns is
\* either exactly 0.0, when there is no finding, or lies in [0.6, 0.9]; so
\* recommendations is empty iff patterns_detected is, and every run with at
\* least one finding carries one of the two risk-banner lines, at the head of
\* its recommendations.
C28_RiskZeroOrBanded ==
    (Succeeded /\ request.analysis_type = "suspicious_patterns") =>
        /\ Len(Findings) = 0 => result.body.risk_score = FZero
        /\ Len(Findings) > 0 =>
              /\ ~FLess(result.body.risk_score, F0_6)
              /\ ~FLess(F0_9, result.body.risk_score)
              /\ Recs[1] \in {ImmediateLine, EnhancedLine}
        /\ (Recs = <<>>) <=> (Findings = <<>>)

\* a result at the top of the band: one finding, for five rapid gaps, scored
\* 0.9, and the Immediate investigation line
C28_Witness ==
    /\ Detected
    /\ Len(Findings) = 1
    /\ Findings[1].count = 5
    /\ result.body.risk_score = F0_9
    /\ Recs[1] = ImmediateLine


\* the findings that carry an entity_id
Flagging == {i \in 1..Len(Findings) : "entity_id" \in DOMAIN Findings[i]}

\* C29: in every result flagged_entities equals the number of
\* rapid_succession findings, which are the only findings with an entity_id
\* and are each about another sender; 0 <= flagged_entities <= total_entities
\* <= suspicious_transactions; and every flagged entity_id is the sender_id of
\* a fetched row.
C29_FlaggedAreRapidSenders ==
    (Succeeded /\ request.analysis_type = "suspicious_patterns") =>
        /\ result.body.flagged_entities = Cardinality(FindingsOf("rapid_succession"))
        /\ Flagging = FindingsOf("rapid_succession")
        /\ \A i, j \in Flagging :
              i # j => Findings[i].entity_id # Findings[j].entity_id
        /\ 0 <= result.body.flagged_entities
        /\ result.body.flagged_entities <= result.body.total_entities
        /\ result.body.total_entities <= result.body.suspicious_transactions
        /\ \A i \in Flagging :
              \E k \in 1..Len(df) : ToString(df[k].sender_id) = Findings[i].entity_id

\* two flagged senders of two, ten rows, and a round_number_bias finding
\* that flags nobody
C29_Witness ==
    /\ Detected
    /\ Cardinality(FindingsOf("rapid_succession")) = 2
    /\ FindingsOf("round_number_bias") # {}
    /\ result.body.flagged_entities = 2
    /\ result.body.total_entities = 2
    /\ result.body.suspicious_transactions = 10

\* C30: the database session a run opens is released on every exit path (the
\* empty-set short-circuit, a normal result, a failure turned into HTTP 500):
\* no session is open once a run has ended, so after any sequence of runs the
\* number of open sessions is zero.
C30_NoSessionLeft == sessions = 0

\* two runs have ended, one by an HTTP 500 and one by a result or the
\* short-circuit, and no session is open
C30_Witness ==
    /\ Responded /\ PeerResponded
    /\ Visited("session") /\ PeerVisited("session")
    /\ Visited("except")
    /\ PeerVisited("result") \/ PeerVisited("empty")
    /\ sessions = 0

====
